---- MODULE Spec2Model ----
(***************************************************************************)
(* Model of the air-quality ETL (load_to_duckdb.py): the batch loop of     *)
(* main, process_json_file, parse_json_to_polars with the row classifier   *)
(* and the datetime normalizer, and insert_data_duckdb with the three      *)
(* upserts it sends to the embedded database.                              *)
(*                                                                         *)
(* Representation.                                                         *)
(*  - A file name is the sequence of its characters; Ord gives the code    *)
(*    point that Python's string comparison uses.                          *)
(*  - A JSON document is a record [shape, key, items]; an array element is *)
(*    a record [isdict, datetime, fields]; a raw JSON value is             *)
(*    [json, text]; the 'datetime' string is [shape, day, ..., text].      *)
(*  - A float is its number of tenths; a nullable DOUBLE is                *)
(*    [isnull, tenths].                                                    *)
(*  - A timestamp is the record [year, month, day, hour, minute, second].  *)
(*  - A table is the set of its rows.                                      *)
(***************************************************************************)
EXTENDS Integers, Sequences, FiniteSets, TLC

\* ------------------------------------------------------------------ bounds
\* most array elements in one input file
MaxRows == 2
\* most files in the downloads directory
MaxFiles == 2
\* most executions of main over the same database file
MaxRuns == 2

\* ------------------------------------------------------------- characters

\* code point of a character, as Python compares strings
Ord(c) ==
  CASE c = "." -> 46 [] c = "0" -> 48 [] c = "1" -> 49 [] c = "2" -> 50
    [] c = "3" -> 51 [] c = "4" -> 52 [] c = "5" -> 53 [] c = "6" -> 54
    [] c = "7" -> 55 [] c = "8" -> 56 [] c = "9" -> 57
    [] c = "A" -> 65 [] c = "B" -> 66 [] c = "_" -> 95
    [] c = "j" -> 106 [] c = "n" -> 110 [] c = "o" -> 111 [] c = "s" -> 115
    [] c = "x" -> 120

\* \d of the regular expressions
IsDigit(c) == c \in {"0", "1", "2", "3", "4", "5", "6", "7", "8", "9"}

DigitVal(c) == Ord(c) - Ord("0")

\* str < str: the first differing character decides, a proper prefix is less
LexLess(a, b) ==
  \E i \in 1..(Len(b)) :
     /\ \A j \in 1..(i - 1) : j <= Len(a) /\ a[j] = b[j]
     /\ \/ i = Len(a) + 1
        \/ i <= Len(a) /\ Ord(a[i]) < Ord(b[i])

RECURSIVE InsertSorted(_, _)
InsertSorted(x, s) ==
  IF s = <<>> THEN <<x>>
  ELSE IF LexLess(s[1], x) THEN <<s[1]>> \o InsertSorted(x, Tail(s))
  ELSE <<x>> \o s

\* the loop over the files in the order glob listed them
unsorted(s) == s

\* sorted(json_files): ascending by path
RECURSIVE sorted(_)
sorted(s) == IF s = <<>> THEN <<>> ELSE InsertSorted(s[1], sorted(Tail(s)))

\* ------------------------------------------------------------ file names

\* length of the leading run of digits of a name
RECURSIVE LeadingDigits(_)
LeadingDigits(s) ==
  IF s # <<>> /\ IsDigit(s[1]) THEN 1 + LeadingDigits(Tail(s)) ELSE 0

\* int(text) of a run of digits
RECURSIVE IntOf(_)
IntOf(s) ==
  IF s = <<>> THEN 0 ELSE 10 * IntOf(SubSeq(s, 1, Len(s) - 1)) + DigitVal(s[Len(s)])

\* parse_filename: re.match(r'^(\d+)_') then int(group 1), else None
parse_filename(filename) ==
  LET n == LeadingDigits(filename) IN
  IF n >= 1 /\ n < Len(filename) /\ filename[n + 1] = "_"
  THEN [matched |-> TRUE, station_id |-> IntOf(SubSeq(filename, 1, n))]
  ELSE [matched |-> FALSE, station_id |-> 0]

\* Path.stem: the name up to its last dot, when that dot is neither first nor last
PathStem(name) ==
  LET dots == {i \in 1..Len(name) : name[i] = "."} IN
  IF dots = {} THEN name
  ELSE LET i == CHOOSE k \in dots : \A j \in dots : j <= k IN
       IF i > 1 /\ i < Len(name) THEN SubSeq(name, 1, i - 1) ELSE name

\* str.split('_')
RECURSIVE SplitUnderscore(_)
SplitUnderscore(s) ==
  IF \A i \in 1..Len(s) : s[i] # "_" THEN <<s>>
  ELSE LET k == CHOOSE i \in 1..Len(s) :
                   s[i] = "_" /\ \A j \in 1..(i - 1) : s[j] # "_" IN
       <<SubSeq(s, 1, k - 1)>> \o SplitUnderscore(SubSeq(s, k + 1, Len(s)))

\* str(n) for n >= 0
RECURSIVE DigitsOf(_)
DigitsOf(n) ==
  LET d == CHOOSE c \in {"0", "1", "2", "3", "4", "5", "6", "7", "8", "9"} :
              DigitVal(c) = n % 10 IN
  IF n < 10 THEN <<d>> ELSE DigitsOf(n \div 10) \o <<d>>

\* station_name = parts[1] if len(parts) > 1 else f"Estacion {station_id}"
StationNameOf(name, station_id) ==
  LET parts == SplitUnderscore(PathStem(name)) IN
  IF Len(parts) > 1 THEN parts[2] ELSE <<"Estacion ">> \o DigitsOf(station_id)

\* ------------------------------------------------------- the calendar

IsLeap(y) == (y % 4 = 0 /\ y % 100 # 0) \/ y % 400 = 0

DaysInMonth(y, m) ==
  IF m = 2 THEN (IF IsLeap(y) THEN 29 ELSE 28)
  ELSE IF m \in {4, 6, 9, 11} THEN 30 ELSE 31

\* the failure value of normalize_datetime (None)
NoTimestamp ==
  [ok |-> FALSE, year |-> 0, month |-> 0, day |-> 0, hour |-> 0, minute |-> 0, second |-> 0]

\* datetime(year, month, day, hour, minute): ValueError outside the calendar
PyDatetime(y, m, d, h, mi) ==
  IF /\ y >= 1 /\ y <= 9999 /\ m >= 1 /\ m <= 12
     /\ d >= 1 /\ d <= DaysInMonth(y, m)
     /\ h >= 0 /\ h <= 23 /\ mi >= 0 /\ mi <= 59
  THEN [ok |-> TRUE, year |-> y, month |-> m, day |-> d, hour |-> h, minute |-> mi,
        second |-> 0]
  ELSE NoTimestamp

\* dt + timedelta(days=1): OverflowError past year 9999
PlusOneDay(dt) ==
  IF ~dt.ok THEN NoTimestamp
  ELSE IF dt.day < DaysInMonth(dt.year, dt.month) THEN [dt EXCEPT !.day = dt.day + 1]
  ELSE IF dt.month < 12 THEN [dt EXCEPT !.day = 1, !.month = dt.month + 1]
  ELSE IF dt.year < 9999 THEN [dt EXCEPT !.day = 1, !.month = 1, !.year = dt.year + 1]
  ELSE NoTimestamp

\* the datetime strings: [shape, day, month, year, hour, minute, text].
\* shape "dmyhm" is a string that matches ^\d{2}-\d{2}-\d{4} \d{2}:\d{2}$ with
\* these five numbers; shape "text" is any other string (text names it);
\* shape "absent" is a row without the key.
DmyHm(d, m, y, h, mi) ==
  [shape |-> "dmyhm", day |-> d, month |-> m, year |-> y, hour |-> h, minute |-> mi,
   text |-> ""]

OtherText(t) ==
  [shape |-> "text", day |-> 0, month |-> 0, year |-> 0, hour |-> 0, minute |-> 0,
   text |-> t]

AbsentDatetime ==
  [shape |-> "absent", day |-> 0, month |-> 0, year |-> 0, hour |-> 0, minute |-> 0,
   text |-> ""]

\* NormalizeHour without the timedelta: 24:MM read as 00:MM of the same day
NormalizeHourSameDay(s) ==
  IF s.hour = 24
  THEN PyDatetime(s.year, s.month, s.day, 0, s.minute)
  ELSE PyDatetime(s.year, s.month, s.day, s.hour, s.minute)

\* the branch of normalize_datetime on the hour
NormalizeHour(s) ==
  IF s.hour = 24
  THEN PlusOneDay(PyDatetime(s.year, s.month, s.day, 0, s.minute))
  ELSE PyDatetime(s.year, s.month, s.day, s.hour, s.minute)

\* normalize_datetime: None when the pattern does not match or when datetime
\* or timedelta raise; else the timestamp that strftime writes
normalize_datetime(dt_str) ==
  IF dt_str.shape # "dmyhm" THEN NoTimestamp ELSE NormalizeHour(dt_str)

\* ------------------------------------------------------------ raw values

JsonNull == [json |-> "null", text |-> ""]
JsonString(t) == [json |-> "string", text |-> t]
JsonNumber(t) == [json |-> "number", text |-> t]

\* a nullable DOUBLE: NULL, or a number given in tenths
NullValue == [isnull |-> TRUE, tenths |-> 0]
Double(t) == [isnull |-> FALSE, tenths |-> t]

\* the texts float() accepts among those of the model, with their value in tenths
FloatTexts == {"12.5", "7", "23.4", "0"}

FloatOf(t) ==
  CASE t = "12.5" -> 125 [] t = "7" -> 70 [] t = "23.4" -> 234 [] t = "0" -> 0

\* the value conversion of parse_json_to_polars: the sentinel list, then float(),
\* whose ValueError or TypeError gives None
CoerceValue(value) ==
  IF value.json = "null" THEN NullValue
  ELSE IF value.json = "string" /\ value.text \in {"", "-", "----", "N/A", "NaN"}
  THEN NullValue
  ELSE IF value.json \in {"string", "number"} /\ value.text \in FloatTexts
  THEN Double(FloatOf(value.text))
  ELSE NullValue

\* ------------------------------------------------------- row classifier

summary_keywords ==
  {"Summary", "Minimum", "MinDate", "MinTime", "Maximum", "MaxDate", "MaxTime",
   "Avg", "Num", "DataPrecent", "STD", "Count"}

\* keyword in text, for the texts of the model: a text that is itself a keyword
\* contains it; the date-like texts contain none
TextContains(text, keyword) == text = keyword

\* str(datetime_val) contains one of the summary keywords
HasSummaryKeyword(dt) ==
  dt.shape = "text" /\ \E k \in summary_keywords : TextContains(dt.text, k)

\* is_valid_measurement_row, of a row that is a dict
is_valid_measurement_row(row) ==
  IF HasSummaryKeyword(row.datetime) THEN FALSE
  ELSE IF row.datetime.shape # "dmyhm" THEN FALSE
  ELSE TRUE

\* ---------------------------------------------------- record extractor

\* key.startswith('S_') and key != 'datetime'
IsMonitorKey(key) == key \in {"S_PM25", "S_NO2"}

\* monitors_dict[monitor_code], from code_map.get(monitor_code, {})
MonitorInfo(code_map, code) ==
  IF code \in DOMAIN code_map
  THEN [code |-> code, name |-> code_map[code].label, unit |-> code_map[code].unit]
  ELSE [code |-> code, name |-> code, unit |-> ""]

\* the dict monitors_dict, as the list of its entries in insertion order
RegisterMonitor(monitors_dict, code_map, code) ==
  IF \E i \in 1..Len(monitors_dict) : monitors_dict[i].code = code
  THEN monitors_dict
  ELSE Append(monitors_dict, MonitorInfo(code_map, code))

\* the inner loop over row.items() of one row with timestamp ts
RECURSIVE ExtractFields(_, _, _, _, _)
ExtractFields(fields, ts, station_id, code_map, acc) ==
  IF fields = <<>> THEN acc
  ELSE LET f == fields[1]
           next ==
             IF IsMonitorKey(f.key)
             THEN [measurements_list |->
                     Append(acc.measurements_list,
                            [station_id |-> station_id, monitor_code |-> f.key,
                             timestamp |-> ts, value |-> CoerceValue(f.value)]),
                   monitors_dict |-> RegisterMonitor(acc.monitors_dict, code_map, f.key)]
             ELSE acc
       IN ExtractFields(Tail(fields), ts, station_id, code_map, next)

\* the loop over valid_rows: a row whose timestamp does not normalize is skipped
RECURSIVE ExtractRows(_, _, _, _)
ExtractRows(rows, station_id, code_map, acc) ==
  IF rows = <<>> THEN acc
  ELSE LET timestamp == normalize_datetime(rows[1].datetime)
           next == IF ~timestamp.ok THEN acc
                   ELSE ExtractFields(rows[1].fields, timestamp, station_id, code_map, acc)
       IN ExtractRows(Tail(rows), station_id, code_map, next)

\* [row for row in json_data if is_valid_measurement_row(row)]
RECURSIVE ValidRows(_)
ValidRows(rows) ==
  IF rows = <<>> THEN <<>>
  ELSE IF is_valid_measurement_row(rows[1]) THEN <<rows[1]>> \o ValidRows(Tail(rows))
  ELSE ValidRows(Tail(rows))

\* the array parse_json_to_polars works on: the document itself, or the list under
\* one of data / Data / records / Records; found is FALSE when there is none
DataSection(json_data) ==
  IF json_data.shape = "list" THEN [found |-> TRUE, rows |-> json_data.items]
  ELSE IF json_data.shape = "dict" /\ json_data.key \in {"data", "Data", "records", "Records"}
  THEN [found |-> TRUE, rows |-> json_data.items]
  ELSE [found |-> FALSE, rows |-> <<>>]

EmptyBatch == [raised |-> FALSE, measurements_list |-> <<>>, monitors_dict |-> <<>>]

\* parse_json_to_polars: row.get on an element that is not a dict raises
\* AttributeError out of the function
parse_json_to_polars(json_data, code_map, station_id) ==
  LET section == DataSection(json_data) IN
  IF ~section.found THEN EmptyBatch
  ELSE IF \E i \in 1..Len(section.rows) : ~section.rows[i].isdict
  THEN [EmptyBatch EXCEPT !.raised = TRUE]
  ELSE LET got == ExtractRows(ValidRows(section.rows), station_id, code_map,
                              [measurements_list |-> <<>>, monitors_dict |-> <<>>])
       IN [raised |-> FALSE, measurements_list |-> got.measurements_list,
           monitors_dict |-> got.monitors_dict]


\* ------------------------------------------------------- persistence layer

\* the unique index idx_measurements_unique
MeasurementKey(r) ==
  <<r.station_id, r.monitor_code, r.timestamp, r.report_type>>

\* the station insert with ON CONFLICT DO NOTHING: an existing row keeps its name
InsertStationIfAbsent(table, station_id, station_name, now) ==
  IF \E r \in table : r.station_id = station_id
  THEN table
  ELSE table \cup {[station_id |-> station_id, station_name |-> station_name,
                    created_at |-> now]}

\* INSERT INTO stations ... ON CONFLICT (station_id) DO UPDATE SET station_name
UpsertStation(table, station_id, station_name, now) ==
  IF \E r \in table : r.station_id = station_id
  THEN {IF r.station_id = station_id THEN [r EXCEPT !.station_name = station_name] ELSE r
          : r \in table}
  ELSE table \cup {[station_id |-> station_id, station_name |-> station_name,
                    created_at |-> now]}

\* the monitor insert as INSERT OR REPLACE: the row of the code is replaced whole,
\* its monitor_id too
ReplaceMonitor(table, monitor_id, minfo) ==
  {r \in table : r.monitor_code # minfo.code}
  \cup {[monitor_id |-> monitor_id, monitor_code |-> minfo.code,
         monitor_name |-> minfo.name, unit |-> minfo.unit]}

\* one INSERT INTO monitors ... ON CONFLICT (monitor_code) DO UPDATE SET
\* monitor_name, unit; nextval('monitor_seq') is drawn by every execution
UpsertMonitor(table, monitor_id, minfo) ==
  IF \E r \in table : r.monitor_code = minfo.code
  THEN {IF r.monitor_code = minfo.code
        THEN [r EXCEPT !.monitor_name = minfo.name, !.unit = minfo.unit] ELSE r
          : r \in table}
  ELSE table \cup {[monitor_id |-> monitor_id, monitor_code |-> minfo.code,
                    monitor_name |-> minfo.name, unit |-> minfo.unit]}

\* for mcode, minfo in monitors_dict.items(): the i-th execution draws seq + i - 1
RECURSIVE UpsertMonitors(_, _, _)
UpsertMonitors(table, seq, monitors_dict) ==
  IF monitors_dict = <<>> THEN table
  ELSE UpsertMonitors(UpsertMonitor(table, seq, monitors_dict[1]), seq + 1,
                      Tail(monitors_dict))

\* measurements_df.with_columns(report_type, granularity_minutes, created_at)
WithColumns(measurements_list, report_type, granularity, now) ==
  [i \in 1..Len(measurements_list) |->
     [station_id |-> measurements_list[i].station_id,
      monitor_code |-> measurements_list[i].monitor_code,
      timestamp |-> measurements_list[i].timestamp,
      value |-> measurements_list[i].value,
      report_type |-> report_type,
      granularity_minutes |-> granularity,
      created_at |-> now]]

\* two rows of one INSERT with the same conflict key: the database refuses the
\* statement ("ON CONFLICT DO UPDATE can not update the same row twice in the
\* same command")
UpdatesSameRowTwice(df) ==
  \E i, j \in 1..Len(df) : i # j /\ MeasurementKey(df[i]) = MeasurementKey(df[j])

\* the measurement insert without the unique index and its ON CONFLICT clause
InsertMeasurementAlways(table, id, row) ==
  table \cup {[id |-> id, station_id |-> row.station_id,
               monitor_code |-> row.monitor_code, timestamp |-> row.timestamp,
               value |-> row.value, report_type |-> row.report_type,
               granularity_minutes |-> row.granularity_minutes,
               created_at |-> row.created_at]}

\* the i-th row of the SELECT, on the table: the row with its key is overwritten
\* in value, granularity_minutes and created_at; without one the row is inserted
\* with the id nextval drew for it
UpsertMeasurement(table, id, row) ==
  IF \E r \in table : MeasurementKey(r) = MeasurementKey(row)
  THEN {IF MeasurementKey(r) = MeasurementKey(row)
        THEN [r EXCEPT !.value = row.value,
                       !.granularity_minutes = row.granularity_minutes,
                       !.created_at = row.created_at]
        ELSE r : r \in table}
  ELSE table \cup {[id |-> id, station_id |-> row.station_id,
                    monitor_code |-> row.monitor_code, timestamp |-> row.timestamp,
                    value |-> row.value, report_type |-> row.report_type,
                    granularity_minutes |-> row.granularity_minutes,
                    created_at |-> row.created_at]}

RECURSIVE UpsertRows(_, _, _)
UpsertRows(table, seq, df) ==
  IF df = <<>> THEN table
  ELSE UpsertRows(UpsertMeasurement(table, seq, df[1]), seq + 1, Tail(df))

\* the measurement insert as a statement that is not applied whole: when it is
\* refused, the rows before the refused one stay written
InsertMeasurementsRowByRow(table, seq, df) ==
  IF UpdatesSameRowTwice(df)
  THEN [raised |-> TRUE, table |-> UpsertMeasurement(table, seq, df[1]),
        seq |-> seq + Len(df)]
  ELSE [raised |-> FALSE, table |-> UpsertRows(table, seq, df), seq |-> seq + Len(df)]

\* INSERT INTO measurements SELECT nextval('measurement_seq'), ... FROM
\* temp_measurements ON CONFLICT (...) DO UPDATE SET ...: one statement, applied
\* whole or not at all; nextval is drawn for every row of the SELECT
InsertMeasurements(table, seq, df) ==
  IF UpdatesSameRowTwice(df)
  THEN [raised |-> TRUE, table |-> table, seq |-> seq + Len(df)]
  ELSE [raised |-> FALSE, table |-> UpsertRows(table, seq, df), seq |-> seq + Len(df)]

\* what conn.unregister('temp_measurements') leaves registered
Unregister(views) == views \ {"temp_measurements"}

\* the try block of insert_data_duckdb: register, insert, unregister; the except
\* branch prints and returns
TryInsert(db, df) ==
  LET ins == InsertMeasurements(db.measurements, db.measurement_seq, df)
      held == db.registered \cup {"temp_measurements"} IN
  [db EXCEPT !.measurements = ins.table,
             !.measurement_seq = ins.seq,
             !.registered = IF ins.raised THEN held ELSE Unregister(held),
             !.insert_raised = ins.raised]

\* insert_data_duckdb, on the database [stations, monitors, measurements,
\* monitor_seq, measurement_seq, registered]; insert_raised reports the except branch
insert_data_duckdb(db, measurements_list, station_id, station_name, monitors_dict, report_type, granularity, now) ==
  LET db1 == [db EXCEPT
                !.stations = UpsertStation(db.stations, station_id, station_name, now),
                !.monitors = UpsertMonitors(db.monitors, db.monitor_seq, monitors_dict),
                !.monitor_seq = db.monitor_seq + Len(monitors_dict),
                !.insert_raised = FALSE] IN
  IF measurements_list = <<>> THEN db1
  ELSE TryInsert(db1, WithColumns(measurements_list, report_type, granularity, now))

\* ------------------------------------------------------------ coordinator

\* config.get('report', {}).get('type', 'Average')
ReportType(config) == IF config.has_type THEN config.type ELSE "Average"

\* config.get('time', {}).get('granularity_minutes', 60)
Granularity(config) ==
  IF config.has_granularity THEN config.granularity_minutes ELSE 60

\* process_json_file without the is_empty() check of lines 297-299: a file
\* without measurements goes on to insert_data_duckdb
process_json_file_without_empty_check(db, name, data, code_map, config, now) ==
  LET parsed == parse_filename(name)
      station_id == parsed.station_id
      station_name == StationNameOf(name, station_id)
      batch == parse_json_to_polars(data, code_map, station_id)
      after == insert_data_duckdb(db, batch.measurements_list, station_id, station_name,
                                  batch.monitors_dict, ReportType(config),
                                  Granularity(config), now)
  IN
  IF ~parsed.matched THEN [outcome |-> "no_station", db |-> db]
  ELSE IF data.shape = "malformed" THEN [outcome |-> "bad_json", db |-> db]
  ELSE IF batch.raised THEN [outcome |-> "exception", db |-> db]
  ELSE [outcome |-> IF batch.measurements_list = <<>> THEN "empty"
                    ELSE IF after.insert_raised THEN "insert_failed" ELSE "stored",
        db |-> after]

\* process_json_file on the database db: outcome names the path taken
\*   "no_station"  parse_filename gave None
\*   "bad_json"    json.load raised JSONDecodeError
\*   "exception"   parse_json_to_polars raised (the exception leaves the function)
\*   "empty"       no valid measurement
\*   "insert_failed" / "stored"  insert_data_duckdb ran
process_json_file(db, name, data, code_map, config, now) ==
  LET parsed == parse_filename(name)
      station_id == parsed.station_id
      station_name == StationNameOf(name, station_id)
      batch == parse_json_to_polars(data, code_map, station_id)
      after == insert_data_duckdb(db, batch.measurements_list, station_id, station_name,
                                  batch.monitors_dict, ReportType(config),
                                  Granularity(config), now)
  IN
  IF ~parsed.matched THEN [outcome |-> "no_station", db |-> db]
  ELSE IF data.shape = "malformed" THEN [outcome |-> "bad_json", db |-> db]
  ELSE IF batch.raised THEN [outcome |-> "exception", db |-> db]
  ELSE IF batch.measurements_list = <<>> THEN [outcome |-> "empty", db |-> db]
  ELSE [outcome |-> IF after.insert_raised THEN "insert_failed" ELSE "stored",
        db |-> after]


\* ------------------------------------------------------------ the inputs

JsonSuffix == <<".", "j", "s", "o", "n">>

\* the names a downloads directory may hold: 1_A.json, 1_B.json, 12_A.json, x.json
FileNames ==
  {<<"1", "_", "A">> \o JsonSuffix, <<"1", "_", "B">> \o JsonSuffix,
   <<"1", "2", "_", "A">> \o JsonSuffix, <<"x">> \o JsonSuffix}

Field(k, v) == [key |-> k, value |-> v]

Row(dt, fields) == [isdict |-> TRUE, datetime |-> dt, fields |-> fields]

\* an array element that is not an object (a string, a number, null, an array)
NotADict == [isdict |-> FALSE, datetime |-> AbsentDatetime, fields |-> <<>>]

\* the array elements of the input files: 24:00 of one day and 00:00 of the next,
\* a third reading, a summary row, a row without any S_ field, and an element
\* that is not an object
Elements ==
  {Row(DmyHm(15, 3, 2024, 24, 0), <<Field("S_PM25", JsonString("12.5"))>>),
   Row(DmyHm(16, 3, 2024, 0, 0),
       <<Field("S_NO2", JsonNumber("7")), Field("Temp", JsonString("7")),
         Field("S_PM25", JsonString("-"))>>),
   Row(DmyHm(1, 1, 2024, 8, 0),
       <<Field("S_PM25", JsonString("23.4")), Field("S_NO2", JsonString("abc"))>>),
   Row(OtherText("Summary"), <<Field("S_PM25", JsonString("Avg"))>>),
   Row(DmyHm(1, 1, 2024, 8, 0), <<Field("Temp", JsonString("7"))>>),
   NotADict}

ListsUpTo(n) == UNION {[1..k -> Elements] : k \in 0..n}

\* the documents json.load may find in a file; "malformed" is the text on which
\* it raises JSONDecodeError; an object holds one array, under "data" or "items"
Documents ==
  {[shape |-> "malformed", key |-> "", items |-> <<>>],
   [shape |-> "scalar", key |-> "", items |-> <<>>]}
  \cup {[shape |-> "list", key |-> "", items |-> l] : l \in ListsUpTo(MaxRows)}
  \cup {[shape |-> "dict", key |-> k,
         items |-> <<Row(DmyHm(1, 1, 2024, 8, 0),
                         <<Field("S_PM25", JsonString("23.4"))>>)>>] :
          k \in {"data", "items"}}

\* config/appsettings.json and config/code_title_map.json as one run finds them
Environments ==
  {[config |-> [has_type |-> FALSE, type |-> "", has_granularity |-> FALSE,
                granularity_minutes |-> 0],
    code_map |-> [c \in {} |-> [label |-> "", unit |-> ""]]],
   [config |-> [has_type |-> TRUE, type |-> "Maximum", has_granularity |-> TRUE,
                granularity_minutes |-> 30],
    code_map |-> [c \in {"S_PM25"} |-> [label |-> "PM2.5", unit |-> "ug/m3"]]]}

\* the orders in which glob may list the files of a directory
Listings(dir) ==
  {l \in [1..Cardinality(dir) -> dir] : \A i, j \in DOMAIN l : i # j => l[i] # l[j]}

\* --------------------------------------------------------------- the state

VARIABLES
  stations,          \* table stations
  monitors,          \* table monitors
  measurements,      \* table measurements
  monitor_seq,       \* next value of sequence monitor_seq
  measurement_seq,   \* next value of sequence measurement_seq
  registered,        \* the views registered on the connection
  clock,             \* the time, as datetime.now() and CURRENT_TIMESTAMP read it
  downloads,         \* the directory downloads: file name -> document
  config,            \* main's config
  code_map,          \* main's code_map
  json_files,        \* the list the for loop of main iterates
  idx,               \* the position of the loop in json_files
  pc,                \* "idle", "loop", "summary"
  success_count,
  error_count,
  run,               \* how many times main was started
  attempted,         \* the files handed to process_json_file in this run, in order
  last,              \* what the last process_json_file did
  dt_str,            \* the argument of a call of normalize_datetime
  normalized,        \* what that call returned
  extracted,         \* the measurements of a file whose one row has that datetime
  filtered,          \* the dashboard's rows of the selected station and monitor
  fig_box            \* the day-of-week figure update_graphs returned

vars ==
  <<stations, monitors, measurements, monitor_seq, measurement_seq, registered,
    clock, downloads, config, code_map, json_files, idx, pc, success_count,
    error_count, run, attempted, last, dt_str, normalized, extracted, filtered,
    fig_box>>

\* the database as the operators above take it
Database ==
  [stations |-> stations, monitors |-> monitors, measurements |-> measurements,
   monitor_seq |-> monitor_seq, measurement_seq |-> measurement_seq,
   registered |-> registered, insert_raised |-> FALSE]

NoFile == <<>>

NoConfig ==
  [has_type |-> FALSE, type |-> "", has_granularity |-> FALSE, granularity_minutes |-> 0]

NoCodeMap == [c \in {} |-> [label |-> "", unit |-> ""]]

\* no figure yet: update_graphs has not run
NoFigure == [path |-> "none", x |-> <<>>, category_orders |-> <<>>, traces |-> <<>>]

\* before the first run: no database file, no downloads; the sequences START 1
Init ==
  /\ stations = {} /\ monitors = {} /\ measurements = {}
  /\ monitor_seq = 1 /\ measurement_seq = 1
  /\ registered = {}
  /\ clock = 1
  /\ downloads = [f \in {} |-> 0]
  /\ config = NoConfig
  /\ code_map = NoCodeMap
  /\ json_files = <<>> /\ idx = 1 /\ pc = "idle"
  /\ success_count = 0 /\ error_count = 0 /\ run = 0
  /\ attempted = <<>>
  /\ last = [file |-> NoFile, outcome |-> "none", report_type |-> ""]
  /\ dt_str = AbsentDatetime /\ normalized = NoTimestamp /\ extracted = <<>>
  /\ filtered = <<>> /\ fig_box = NoFigure

\* the download step that precedes the first run fills the directory
Download ==
  /\ pc = "idle" /\ run = 0 /\ DOMAIN downloads = {}
  /\ \E dir \in SUBSET FileNames :
       /\ dir # {} /\ Cardinality(dir) <= MaxFiles
       /\ downloads' \in [dir -> Documents]
  /\ UNCHANGED <<stations, monitors, measurements, monitor_seq, measurement_seq,
                 registered, clock, config, code_map, json_files, idx, pc,
                 success_count, error_count, run, attempted, last, dt_str,
                 normalized, extracted,
                 filtered, fig_box>>

\* between two runs files are removed from the directory
Cleanup ==
  /\ pc = "idle" /\ run >= 1 /\ run < MaxRuns
  /\ \E keep \in SUBSET (DOMAIN downloads) :
       /\ keep # {} /\ keep # DOMAIN downloads
       /\ downloads' = [f \in keep |-> downloads[f]]
  /\ UNCHANGED <<stations, monitors, measurements, monitor_seq, measurement_seq,
                 registered, clock, config, code_map, json_files, idx, pc,
                 success_count, error_count, run, attempted, last, dt_str,
                 normalized, extracted,
                 filtered, fig_box>>

\* main up to the for loop: the connection, config, code_map, glob and sorted;
\* without files main exits before the loop
MainStart ==
  /\ pc = "idle" /\ run < MaxRuns
  /\ \E env \in Environments, listing \in Listings(DOMAIN downloads) :
       /\ config' = env.config
       /\ code_map' = env.code_map
       /\ json_files' = sorted(listing)
       /\ pc' = IF listing = <<>> THEN "idle" ELSE "loop"
  /\ idx' = 1
  /\ success_count' = 0 /\ error_count' = 0
  /\ attempted' = <<>>
  /\ registered' = {}
  /\ run' = run + 1
  /\ UNCHANGED <<stations, monitors, measurements, monitor_seq, measurement_seq,
                 clock, downloads, last, dt_str, normalized, extracted,
                 filtered, fig_box>>

\* one iteration of the for loop: process_json_file inside try/except Exception
ProcessFile ==
  /\ pc = "loop" /\ idx <= Len(json_files)
  /\ LET json_file == json_files[idx]
         res == process_json_file(Database, json_file, downloads[json_file],
                                  code_map, config, clock)
     IN /\ stations' = res.db.stations
        /\ monitors' = res.db.monitors
        /\ measurements' = res.db.measurements
        /\ monitor_seq' = res.db.monitor_seq
        /\ measurement_seq' = res.db.measurement_seq
        /\ registered' = res.db.registered
        /\ success_count' = IF res.outcome = "exception" THEN success_count
                            ELSE success_count + 1
        /\ error_count' = IF res.outcome = "exception" THEN error_count + 1
                          ELSE error_count
        /\ attempted' = Append(attempted, json_file)
        /\ last' = [file |-> json_file, outcome |-> res.outcome,
                     report_type |-> ReportType(config)]
  /\ idx' = idx + 1
  /\ clock' = clock + 1
  /\ UNCHANGED <<downloads, config, code_map, json_files, pc, run, dt_str,
                 normalized, extracted,
                 filtered, fig_box>>

\* the loop is over: the summary queries, conn.close() and the printed totals
Summary ==
  /\ pc = "loop" /\ idx > Len(json_files)
  /\ pc' = "idle"
  /\ registered' = {}
  /\ UNCHANGED <<stations, monitors, measurements, monitor_seq, measurement_seq,
                 clock, downloads, config, code_map, json_files, idx,
                 success_count, error_count, run, attempted, last, dt_str,
                 normalized, extracted,
                 filtered, fig_box>>

Next == Download \/ Cleanup \/ MainStart \/ ProcessFile \/ Summary

Spec == Init /\ [][Next]_vars

\* ------------------------------------------- normalize_datetime on its own

\* the strings handed to normalize_datetime: every combination of these
\* components in the pattern, and two strings the pattern rejects
DatetimeStrings ==
  {DmyHm(d, m, y, h, mi) :
     d \in {0, 1, 15, 28, 29, 30, 31, 32}, m \in {0, 1, 2, 3, 4, 12, 13},
     y \in {2023, 2024}, h \in {0, 10, 23, 24, 25, 99}, mi \in {0, 30, 59, 60}}
  \cup {OtherText("2024-03-15 10:00"), OtherText("15-03-2024 10:00:00")}

InitNorm ==
  /\ stations = {} /\ monitors = {} /\ measurements = {}
  /\ monitor_seq = 1 /\ measurement_seq = 1
  /\ registered = {}
  /\ clock = 1
  /\ downloads = [f \in {} |-> 0]
  /\ config = NoConfig
  /\ code_map = NoCodeMap
  /\ json_files = <<>> /\ idx = 1 /\ pc = "normalize"
  /\ success_count = 0 /\ error_count = 0 /\ run = 0
  /\ attempted = <<>>
  /\ last = [file |-> NoFile, outcome |-> "none", report_type |-> ""]
  /\ dt_str \in DatetimeStrings /\ normalized = NoTimestamp /\ extracted = <<>>
  /\ filtered = <<>> /\ fig_box = NoFigure

\* one call of normalize_datetime, and parse_json_to_polars on the file whose
\* only row carries that datetime and one reading
NormalizeRow ==
  /\ pc = "normalize"
  /\ normalized' = normalize_datetime(dt_str)
  /\ extracted' =
       parse_json_to_polars(
         [shape |-> "list", key |-> "",
          items |-> <<Row(dt_str, <<Field("S_PM25", JsonString("12.5"))>>)>>],
         NoCodeMap, 1).measurements_list
  /\ pc' = "normalized"
  /\ UNCHANGED <<stations, monitors, measurements, monitor_seq, measurement_seq,
                 registered, clock, downloads, config, code_map, json_files, idx,
                 success_count, error_count, run, attempted, last, dt_str,
                 filtered, fig_box>>

NextNorm == NormalizeRow

SpecNorm == InitNorm /\ [][NextNorm]_vars

\* ---------------------------------------------- dashboard: day-of-week view

\* days from 1970-01-01 to y-m-d in the proleptic Gregorian calendar
DaysFromCivil(y, m, d) ==
  LET yy == IF m <= 2 THEN y - 1 ELSE y
      era == yy \div 400
      yoe == yy - era * 400
      mp == IF m > 2 THEN m - 3 ELSE m + 9
      doy == (153 * mp + 2) \div 5 + d - 1
      doe == yoe * 365 + yoe \div 4 - yoe \div 100 + doy
  IN era * 146097 + doe - 719468

\* pl.col('timestamp').dt.weekday(): the ISO weekday, Monday = 1 ... Sunday = 7
weekday(ts) == ((DaysFromCivil(ts.year, ts.month, ts.day) + 3) % 7) + 1

day_map ==
  [n \in 0..6 |-> <<"Lunes", "Martes", "Miercoles", "Jueves", "Viernes", "Sabado",
                    "Domingo">>[n + 1]]

day_order_es ==
  <<"Lunes", "Martes", "Miercoles", "Jueves", "Viernes", "Sabado", "Domingo">>

\* lambda x: day_map.get(x, '') on the column weekday_num
day_of_week_es(ts) ==
  LET weekday_num == weekday(ts) IN
  IF weekday_num \in DOMAIN day_map THEN day_map[weekday_num] ELSE ""

\* the minutes of a timestamp, by which sort('timestamp') orders
Minutes(ts) ==
  (DaysFromCivil(ts.year, ts.month, ts.day) * 24 + ts.hour) * 60 + ts.minute

RECURSIVE InsertByTimestamp(_, _)
InsertByTimestamp(row, rows) ==
  IF rows = <<>> THEN <<row>>
  ELSE IF Minutes(row.timestamp) < Minutes(rows[1].timestamp) THEN <<row>> \o rows
  ELSE <<rows[1]>> \o InsertByTimestamp(row, Tail(rows))

\* filtered.sort('timestamp')
RECURSIVE SortByTimestamp(_)
SortByTimestamp(rows) ==
  IF rows = <<>> THEN <<>>
  ELSE InsertByTimestamp(rows[1], SortByTimestamp(Tail(rows)))

\* filtered_box.filter(pl.col('day_of_week_es') == day), as the positions of
\* the rows it keeps
RECURSIVE PositionsFrom(_, _, _)
PositionsFrom(rows, day, i) ==
  IF i > Len(rows) THEN <<>>
  ELSE (IF day_of_week_es(rows[i].timestamp) = day THEN <<i>> ELSE <<>>)
       \o PositionsFrom(rows, day, i + 1)

\* for day in day_order_es: a go.Box trace of the rows of that day, if there are any
RECURSIVE BoxTraces(_, _)
BoxTraces(rows, days) ==
  IF days = <<>> THEN <<>>
  ELSE (IF PositionsFrom(rows, days[1], 1) # <<>>
        THEN <<[name |-> days[1], rows |-> PositionsFrom(rows, days[1], 1)]>>
        ELSE <<>>)
       \o BoxTraces(rows, Tail(days))

\* go.Figure() with the annotation "No hay datos para esta combinacion"
EmptyFigure == [path |-> "empty", x |-> <<>>, category_orders |-> <<>>, traces |-> <<>>]

\* px.box(filtered_box, x='day_of_week_es', category_orders=day_order_es): x is
\* the label of every row
BoxExpress(rows) ==
  [path |-> "express",
   x |-> [i \in 1..Len(rows) |-> day_of_week_es(rows[i].timestamp)],
   category_orders |-> day_order_es,
   traces |-> <<>>]

\* the go.Figure of the except branch: one trace per day that has rows; a trace
\* holds the positions of its rows in filtered
BoxGraphObjects(rows) ==
  [path |-> "graph_objects", x |-> <<>>, category_orders |-> <<>>,
   traces |-> BoxTraces(rows, day_order_es)]

\* the dates of the measurements the dashboard shows: the week from Monday
\* 2024-01-01 to Sunday 2024-01-07, the day before it, a leap day and a Saturday
DashboardDates ==
  {<<2023, 12, 31>>, <<2024, 1, 1>>, <<2024, 1, 2>>, <<2024, 1, 3>>, <<2024, 1, 4>>,
   <<2024, 1, 5>>, <<2024, 1, 6>>, <<2024, 1, 7>>, <<2024, 2, 29>>, <<2024, 3, 16>>}

\* the rows of df for one station and monitor: value is not null
DashboardRows ==
  {[timestamp |-> PyDatetime(d[1], d[2], d[3], 8, 0), value |-> Double(125)] :
     d \in DashboardDates}

\* df is loaded ORDER BY m.timestamp; the filter keeps that order
InitDash ==
  /\ stations = {} /\ monitors = {} /\ measurements = {}
  /\ monitor_seq = 1 /\ measurement_seq = 1
  /\ registered = {}
  /\ clock = 1
  /\ downloads = [f \in {} |-> 0]
  /\ config = NoConfig
  /\ code_map = NoCodeMap
  /\ json_files = <<>> /\ idx = 1 /\ pc = "dashboard"
  /\ success_count = 0 /\ error_count = 0 /\ run = 0
  /\ attempted = <<>>
  /\ last = [file |-> NoFile, outcome |-> "none", report_type |-> ""]
  /\ dt_str = AbsentDatetime /\ normalized = NoTimestamp /\ extracted = <<>>
  /\ \E n \in 0..MaxRows :
       /\ filtered \in [1..n -> DashboardRows]
       /\ \A i, j \in 1..n :
            i < j => Minutes(filtered[i].timestamp) <= Minutes(filtered[j].timestamp)
  /\ fig_box = NoFigure

\* update_graphs when the selection has no rows
UpdateGraphsEmpty ==
  /\ pc = "dashboard" /\ filtered = <<>>
  /\ fig_box' = EmptyFigure
  /\ pc' = "rendered"
  /\ UNCHANGED <<stations, monitors, measurements, monitor_seq, measurement_seq,
                 registered, clock, downloads, config, code_map, json_files, idx,
                 success_count, error_count, run, attempted, last, dt_str,
                 normalized, extracted, filtered>>

\* update_graphs through the try branch: plotly express takes the DataFrame
UpdateGraphsExpress ==
  /\ pc = "dashboard" /\ filtered # <<>>
  /\ filtered' = SortByTimestamp(filtered)
  /\ fig_box' = BoxExpress(filtered')
  /\ pc' = "rendered"
  /\ UNCHANGED <<stations, monitors, measurements, monitor_seq, measurement_seq,
                 registered, clock, downloads, config, code_map, json_files, idx,
                 success_count, error_count, run, attempted, last, dt_str,
                 normalized, extracted>>

\* update_graphs through the except branch: plotly express raised
\* NotImplementedError, TypeError or ModuleNotFoundError
UpdateGraphsFallback ==
  /\ pc = "dashboard" /\ filtered # <<>>
  /\ filtered' = SortByTimestamp(filtered)
  /\ fig_box' = BoxGraphObjects(filtered')
  /\ pc' = "rendered"
  /\ UNCHANGED <<stations, monitors, measurements, monitor_seq, measurement_seq,
                 registered, clock, downloads, config, code_map, json_files, idx,
                 success_count, error_count, run, attempted, last, dt_str,
                 normalized, extracted>>

NextDash == UpdateGraphsEmpty \/ UpdateGraphsExpress \/ UpdateGraphsFallback

SpecDash == InitDash /\ [][NextDash]_vars

\* ================================================================= claims

\* the lengths of the months of 2023, 2024 (a leap year) and 2025, written out
MonthLengths(y) ==
  IF y = 2024 THEN <<31, 29, 31, 30, 31, 30, 31, 31, 30, 31, 30, 31>>
  ELSE <<31, 28, 31, 30, 31, 30, 31, 31, 30, 31, 30, 31>>

RECURSIVE DaysBeforeMonth(_, _)
DaysBeforeMonth(y, m) ==
  IF m <= 1 THEN 0 ELSE DaysBeforeMonth(y, m - 1) + MonthLengths(y)[m - 1]

\* the number of the day y-m-d, counted from 1 January 2023
DayNumber(y, m, d) ==
  (IF y >= 2024 THEN 365 ELSE 0) + (IF y >= 2025 THEN 366 ELSE 0)
  + DaysBeforeMonth(y, m) + d

IsCalendarDate(y, m, d) ==
  m \in 1..12 /\ d >= 1 /\ d <= MonthLengths(y)[m]

\* the strings DD-MM-YYYY 00:MM of the day after the date of s
NextDayMidnightStrings(s) ==
  {t \in {DmyHm(d, m, y, 0, s.minute) : d \in 1..31, m \in 1..12, y \in 2023..2025} :
     /\ IsCalendarDate(t.year, t.month, t.day)
     /\ DayNumber(t.year, t.month, t.day) = DayNumber(s.year, s.month, s.day) + 1}

\* C8: normalize_datetime maps DD-MM-YYYY 24:MM to what it returns for 00:MM of
\* the following calendar day (across month and year ends too), returns the
\* literal date and time for the hours 0-23, and returns the failure value, so
\* that the row is skipped, for an hour of 25-99 and for any other component
\* outside the calendar or a string outside the pattern.
C8_Hour24IsNextMidnight ==
  pc = "normalized" =>
    LET s == dt_str
        wellformed == /\ s.shape = "dmyhm"
                      /\ IsCalendarDate(s.year, s.month, s.day)
                      /\ s.minute <= 59
    IN /\ (wellformed /\ s.hour = 24) =>
            /\ normalized.ok
            /\ normalized.hour = 0 /\ normalized.minute = s.minute
            /\ normalized.second = 0
            /\ DayNumber(normalized.year, normalized.month, normalized.day)
                 = DayNumber(s.year, s.month, s.day) + 1
            /\ NextDayMidnightStrings(s) # {}
            /\ \A t \in NextDayMidnightStrings(s) : normalize_datetime(t) = normalized
       /\ (wellformed /\ s.hour <= 23) =>
            normalized = [ok |-> TRUE, year |-> s.year, month |-> s.month,
                          day |-> s.day, hour |-> s.hour, minute |-> s.minute,
                          second |-> 0]
       /\ (wellformed /\ s.hour <= 24) =>
            /\ Len(extracted) = 1
            /\ extracted[1].timestamp = normalized
       /\ (~wellformed \/ s.hour >= 25) =>
            /\ normalized = NoTimestamp
            /\ extracted = <<>>

\* C8 witness: 31-12-2024 24:30 was normalized to 2025-01-01 00:30:00
C8_Witness ==
  /\ pc = "normalized"
  /\ dt_str = DmyHm(31, 12, 2024, 24, 30)
  /\ normalized = [ok |-> TRUE, year |-> 2025, month |-> 1, day |-> 1, hour |-> 0,
                   minute |-> 30, second |-> 0]


\* ------------------------------------------------- claims on the pipeline

\* a step of the for loop of main
IsProcessStep == pc = "loop" /\ idx <= Len(json_files) /\ idx' = idx + 1

\* the file that step processes, its station and its document
StepFile == json_files[idx]
StepStation == parse_filename(StepFile).station_id
StepDocument == downloads[StepFile]

\* the step reached insert_data_duckdb
StepPersists == IsProcessStep /\ last'.outcome \in {"stored", "insert_failed"}

\* the measurements the extractor hands to insert_data_duckdb in that step
StepBatch == parse_json_to_polars(StepDocument, code_map, StepStation).measurements_list

\* the key under which the step stores measurement m
StepKey(m) == <<m.station_id, m.monitor_code, m.timestamp, ReportType(config)>>

RowKey(r) == <<r.station_id, r.monitor_code, r.timestamp, r.report_type>>

F_1A == <<"1", "_", "A">> \o JsonSuffix
F_1B == <<"1", "_", "B">> \o JsonSuffix
F_12A == <<"1", "2", "_", "A">> \o JsonSuffix

\* C2: in every reachable state of the store no two measurement rows share
\* (station_id, monitor_code, timestamp, report_type).
C2_UniqueMeasurementKey ==
  \A r1, r2 \in measurements :
    ( /\ r1.station_id = r2.station_id /\ r1.monitor_code = r2.monitor_code
      /\ r1.timestamp = r2.timestamp /\ r1.report_type = r2.report_type ) => r1 = r2

\* C2 witness: a row inserted before another one was overwritten after it (a
\* reading was ingested again), in a second run over the same store
C2_Witness ==
  /\ run = 2
  /\ \E r1, r2 \in measurements : r1.id < r2.id /\ r1.created_at > r2.created_at

\* C4: a step that hands a non-empty batch for station S to the persistence layer
\* leaves exactly one station row for S, named after that file, and every
\* measurement whose key the file does not supply stays as it was.
C4_StationRenamed ==
  [][StepPersists =>
       /\ Cardinality({s \in stations' : s.station_id = StepStation}) = 1
       /\ \A s \in stations' :
            s.station_id = StepStation =>
              s.station_name = SplitUnderscore(PathStem(StepFile))[2]
       /\ \A r \in measurements :
            (\A i \in 1..Len(StepBatch) : StepKey(StepBatch[i]) # RowKey(r))
              => r \in measurements']_vars

\* C4 witness: 1_A.json then 1_B.json were ingested; station 1 is one row named
\* B that 1_A.json created, and a measurement 1_A.json stored is still there
C4_Witness ==
  /\ attempted = <<F_1A, F_1B>>
  /\ last.outcome = "stored"
  /\ \E s \in stations :
       /\ stations = {s}
       /\ s.station_id = 1 /\ s.station_name = <<"B">>
       /\ s.created_at = clock - 2
       /\ \E r \in measurements : r.station_id = 1 /\ r.created_at = s.created_at

\* the part of C5 that holds of every state: the loop goes through the files of
\* the directory, each once, in ascending order of name, has attempted exactly
\* those before its position, and the file of its next step is there to read
LoopInvariant ==
  /\ pc = "loop" =>
       /\ Len(json_files) = Cardinality(DOMAIN downloads)
       /\ {json_files[i] : i \in 1..Len(json_files)} = DOMAIN downloads
       /\ \A i, j \in 1..Len(json_files) : i < j => LexLess(json_files[i], json_files[j])
       /\ idx <= Len(json_files) + 1
       /\ attempted = SubSeq(json_files, 1, idx - 1)
       /\ idx <= Len(json_files) => json_files[idx] \in DOMAIN downloads
  /\ pc = "idle" => attempted = json_files

\* the part of C5 that holds of every step: a step of the loop either moves to
\* the next file, whatever the file did, or is the summary after the last file;
\* no step removes what an earlier file stored
LoopStep ==
  /\ pc = "loop" =>
       \/ idx <= Len(json_files) /\ idx' = idx + 1 /\ pc' = "loop"
                                 /\ attempted' = Append(attempted, json_files[idx])
       \/ idx > Len(json_files) /\ pc' = "idle"
  /\ \A r \in measurements : \E r2 \in measurements' : r2.id = r.id /\ RowKey(r2) = RowKey(r)
  /\ \A s \in stations : \E s2 \in stations' : s2.station_id = s.station_id
  /\ \A m \in monitors : \E m2 \in monitors' : m2.monitor_code = m.monitor_code

\* C5: the batch loop attempts every file once, in sorted order, whatever the
\* earlier files did, reaches the summary with all of them attempted, and no
\* step removes what an earlier file stored.
C5_BatchLoop == [][LoopStep /\ LoopInvariant']_vars

\* C5 witness: the run is over; 12_A.json came first and raised, 1_A.json came
\* after it and was stored
C5_Witness ==
  /\ pc = "idle"
  /\ attempted = <<F_12A, F_1A>>
  /\ error_count = 1
  /\ last.outcome = "stored"
  /\ measurements # {}

\* C9: no two monitor rows share a code or an id; a monitor keeps the id it got
\* when its code was inserted, and a new code gets an id greater than every id
\* in the table.
C9_MonitorIds ==
  [][/\ \A m1, m2 \in monitors' :
          (m1.monitor_code = m2.monitor_code \/ m1.monitor_id = m2.monitor_id)
            => m1 = m2
     /\ \A m \in monitors : \E n \in monitors' :
          n.monitor_code = m.monitor_code /\ n.monitor_id = m.monitor_id
     /\ \A n \in monitors' :
          (\A m \in monitors : m.monitor_code # n.monitor_code)
            => \A m \in monitors : n.monitor_id > m.monitor_id]_vars

\* C9 witness: S_PM25 was inserted by a run without code map (a reading of type
\* Average exists) and renamed PM2.5 by a later run; it has the smaller id of two
C9_Witness ==
  \E m, m2 \in monitors :
    /\ m.monitor_code = "S_PM25" /\ m.monitor_name = "PM2.5"
    /\ m2.monitor_id > m.monitor_id
    /\ \E r \in measurements : r.monitor_code = "S_PM25" /\ r.report_type = "Average"

\* C10: the registration temp_measurements is released when insert_data_duckdb
\* returns, whether the insert succeeded or raised.
C10_RegistrationReleased == "temp_measurements" \notin registered


\* measurement i of the step's batch is the last one the file supplies for its key
LastForKey(i) ==
  \A j \in (i + 1)..Len(StepBatch) : StepKey(StepBatch[j]) # StepKey(StepBatch[i])

\* C1: ingesting the same file twice in a row, under the same report type, leaves
\* the number of rows of every (station, monitor code, report type) as the first
\* ingestion left it, and every stored value of a key the file supplies is the
\* value the file supplies for it.
C1_SameFileTwice ==
  [][(IsProcessStep /\ last.file = StepFile /\ last.report_type = ReportType(config)) =>
       /\ \A s \in {r.station_id : r \in measurements \cup measurements'},
             c \in {r.monitor_code : r \in measurements \cup measurements'},
             t \in {r.report_type : r \in measurements \cup measurements'} :
            Cardinality({r \in measurements' :
                           r.station_id = s /\ r.monitor_code = c /\ r.report_type = t})
              = Cardinality({r \in measurements :
                               r.station_id = s /\ r.monitor_code = c /\ r.report_type = t})
       /\ \A i \in 1..Len(StepBatch) :
            LastForKey(i) =>
              \A r \in measurements' :
                RowKey(r) = StepKey(StepBatch[i]) => r.value = StepBatch[i].value]_vars

\* C3: a measurement of the batch whose key has a row overwrites that row's
\* value, granularity_minutes and created_at and nothing else of it; one whose key
\* has no row is inserted under an id no row had; every other row is unchanged.
C3_UpsertFrame ==
  [][StepPersists =>
       /\ \A i \in 1..Len(StepBatch) :
            LastForKey(i) =>
              IF \E r \in measurements : RowKey(r) = StepKey(StepBatch[i])
              THEN \E r \in measurements :
                     /\ RowKey(r) = StepKey(StepBatch[i])
                     /\ [r EXCEPT !.value = StepBatch[i].value,
                                  !.granularity_minutes = Granularity(config),
                                  !.created_at = clock] \in measurements'
              ELSE \E r2 \in measurements' :
                     /\ RowKey(r2) = StepKey(StepBatch[i])
                     /\ \A r \in measurements : r.id # r2.id
       /\ \A r \in measurements :
            (\A i \in 1..Len(StepBatch) : StepKey(StepBatch[i]) # RowKey(r))
              => r \in measurements']_vars

\* a row the claims call valid: an object whose datetime is DD-MM-YYYY HH:MM of a
\* calendar day, with an hour up to 24
IsUsableRow(e) ==
  /\ e.isdict
  /\ e.datetime.shape = "dmyhm"
  /\ IsCalendarDate(e.datetime.year, e.datetime.month, e.datetime.day)
  /\ e.datetime.hour <= 24 /\ e.datetime.minute <= 59

\* the fields of a row that carry a monitor code
MonitorFields(e) == {a \in 1..Len(e.fields) : e.fields[a].key \in {"S_PM25", "S_NO2"}}

\* no later usable row of the array gives the same monitor at the same instant
IsLastReading(items, i, a) ==
  \A j \in (i + 1)..Len(items) :
    IsUsableRow(items[j]) =>
      \/ normalize_datetime(items[j].datetime) # normalize_datetime(items[i].datetime)
      \/ \A b \in MonitorFields(items[j]) : items[j].fields[b].key # items[i].fields[a].key

\* no two usable rows of the array give the same monitor at the same instant
HasNoRepeatedReading(items) ==
  \A i \in 1..Len(items) :
    IsUsableRow(items[i]) => \A a \in MonitorFields(items[i]) : IsLastReading(items, i, a)

\* the row of field a of element i of the step's file is in the table afterwards
ReadingStored(items, i, a) ==
  \E r \in measurements' :
    /\ r.station_id = StepStation
    /\ r.monitor_code = items[i].fields[a].key
    /\ r.timestamp = normalize_datetime(items[i].datetime)
    /\ r.report_type = ReportType(config)

\* C6: in a file whose array mixes valid rows with unusable records (here: whose
\* valid rows do not repeat a reading), every measurement of every valid row is
\* stored.
C6_GoodRowsStored ==
  [][(/\ IsProcessStep
      /\ parse_filename(StepFile).matched
      /\ StepDocument.shape = "list"
      /\ HasNoRepeatedReading(StepDocument.items)) =>
       \A i \in 1..Len(StepDocument.items) :
         IsUsableRow(StepDocument.items[i]) =>
           \A a \in MonitorFields(StepDocument.items[i]) :
             ReadingStored(StepDocument.items, i, a)]_vars

\* the value the claim gives a raw value: null for the missing-value tokens and
\* for text that is no number, the number otherwise
ExpectedValue(value) ==
  IF value.json = "null" THEN NullValue
  ELSE IF value.text \in {"", "-", "----", "N/A", "NaN", "abc", "Avg"} THEN NullValue
  ELSE IF value.text = "12.5" THEN Double(125)
  ELSE IF value.text = "23.4" THEN Double(234)
  ELSE IF value.text = "7" THEN Double(70)
  ELSE Double(0)

\* C7: a reading whose raw value is a missing-value token or text that is no
\* number is stored as a row with a null value, and a numeric string as that
\* number (in a file all of whose elements are objects, for the last reading of
\* each key).
C7_MissingStoredAsNull ==
  [][(/\ IsProcessStep
      /\ parse_filename(StepFile).matched
      /\ StepDocument.shape = "list"
      /\ \A i \in 1..Len(StepDocument.items) : StepDocument.items[i].isdict) =>
       \A i \in 1..Len(StepDocument.items) :
         IsUsableRow(StepDocument.items[i]) =>
           \A a \in MonitorFields(StepDocument.items[i]) :
             IsLastReading(StepDocument.items, i, a) =>
               \E r \in measurements' :
                 /\ r.station_id = StepStation
                 /\ r.monitor_code = StepDocument.items[i].fields[a].key
                 /\ r.timestamp = normalize_datetime(StepDocument.items[i].datetime)
                 /\ r.report_type = ReportType(config)
                 /\ r.value = ExpectedValue(StepDocument.items[i].fields[a].value)]_vars

\* the monitor codes the step's file hands to insert_data_duckdb
StepMonitors ==
  parse_json_to_polars(StepDocument, code_map, StepStation).monitors_dict

\* C11: when the measurement insert of a file raises, the exception stays inside
\* insert_data_duckdb: the station and the monitors of that file are in the
\* store, measurements is as it was before the file, the file is not counted as
\* an error, and the loop goes on to the next file.
C11_InsertFailureContained ==
  [][(IsProcessStep /\ last'.outcome = "insert_failed") =>
       /\ measurements' = measurements
       /\ \E s \in stations' :
            /\ s.station_id = StepStation
            /\ s.station_name = SplitUnderscore(PathStem(StepFile))[2]
       /\ \A i \in 1..Len(StepMonitors) :
            \E m \in monitors' :
              /\ m.monitor_code = StepMonitors[i].code
              /\ m.monitor_name = StepMonitors[i].name
              /\ m.unit = StepMonitors[i].unit
       /\ error_count' = error_count
       /\ pc' = "loop" /\ attempted' = Append(attempted, StepFile)]_vars

\* C11 witness: the insert of 12_A.json raised in a first run (station 12 and a
\* monitor are in the store, no measurement of station 12 is), and the loop went
\* on to 1_A.json, which was stored
C11_Witness ==
  /\ run = 1
  /\ attempted = <<F_12A, F_1A>>
  /\ error_count = 0
  /\ last.outcome = "stored"
  /\ \E s \in stations : s.station_id = 12
  /\ \A r \in measurements : r.station_id = 1
  /\ measurements # {}

\* the array a document holds, as the claims read it: the document itself, or
\* the value under data / Data / records / Records of an object
HoldsArray(doc) ==
  \/ doc.shape = "list"
  \/ doc.shape = "dict" /\ doc.key \in {"data", "Data", "records", "Records"}

\* a document that yields no valid measurement: it holds no array, or no element
\* of its array is a valid row with an S_ field
YieldsNoMeasurement(doc) ==
  \/ doc.shape \in {"scalar", "dict"} /\ ~HoldsArray(doc)
  \/ /\ HoldsArray(doc)
     /\ \A i \in 1..Len(doc.items) :
          ~(IsUsableRow(doc.items[i]) /\ MonitorFields(doc.items[i]) # {})

\* C12: a file that yields no valid measurement skips persistence entirely:
\* stations, monitors and measurements (and the two sequences) are unchanged by
\* it, so it neither creates the station nor renames it.
C12_EmptyFileSkipsPersistence ==
  [][(IsProcessStep /\ YieldsNoMeasurement(StepDocument)) =>
       /\ stations' = stations
       /\ monitors' = monitors
       /\ measurements' = measurements
       /\ monitor_seq' = monitor_seq
       /\ measurement_seq' = measurement_seq]_vars

\* C12 witness: 1_A.json was stored, then 1_B.json, whose only row has no S_
\* field, was found empty: station 1 is still named A
C12_Witness ==
  /\ attempted = <<F_1A, F_1B>>
  /\ last.outcome = "empty"
  /\ downloads[F_1B].shape = "list"
  /\ downloads[F_1B].items = <<Row(DmyHm(1, 1, 2024, 8, 0), <<Field("Temp", JsonString("7"))>>)>>
  /\ \E s \in stations : stations = {s} /\ s.station_id = 1 /\ s.station_name = <<"A">>
  /\ measurements # {}

\* the step's file failed, as the claims count failures: no station id in its
\* name, malformed JSON, or an exception while it was processed
StepFailed ==
  \/ ~parse_filename(StepFile).matched
  \/ StepDocument.shape = "malformed"
  \/ last'.outcome = "exception"

\* C13: every file is counted once, as a failure when its processing failed and
\* as a success otherwise, so the two counts add up to the number of files at
\* the summary.
C13_CountsFailures ==
  [][/\ IsProcessStep =>
          IF StepFailed
          THEN error_count' = error_count + 1 /\ success_count' = success_count
          ELSE success_count' = success_count + 1 /\ error_count' = error_count
     /\ (pc = "loop" /\ pc' = "idle") =>
          success_count + error_count = Len(json_files)]_vars

\* the Spanish name of the weekday a timestamp falls on; 1 January 2023, day
\* number 1, was a Sunday
SpanishWeekday(ts) ==
  <<"Lunes", "Martes", "Miercoles", "Jueves", "Viernes", "Sabado", "Domingo">>
    [((DayNumber(ts.year, ts.month, ts.day) + 5) % 7) + 1]

\* the label under which the figure shows row i: its x value, or the name of
\* the trace that holds it; "" when no trace does
ShownLabel(i) ==
  IF fig_box.path = "express" THEN fig_box.x[i]
  ELSE IF \E k \in 1..Len(fig_box.traces) :
            \E j \in 1..Len(fig_box.traces[k].rows) : fig_box.traces[k].rows[j] = i
  THEN fig_box.traces[CHOOSE k \in 1..Len(fig_box.traces) :
                        \E j \in 1..Len(fig_box.traces[k].rows) :
                          fig_box.traces[k].rows[j] = i].name
  ELSE ""

\* the position of a label in the order Monday first
MondayFirst(label) ==
  CHOOSE n \in 1..7 :
    <<"Lunes", "Martes", "Miercoles", "Jueves", "Viernes", "Sabado", "Domingo">>[n] = label

\* C14: in the day-of-week view every measurement is labelled with the Spanish
\* name of the weekday its timestamp falls on, none gets an empty label, and the
\* categories are ordered Monday first, in the plotly-express path and in the
\* graph_objects path.
C14_WeekdayLabels ==
  (pc = "rendered" /\ filtered # <<>>) =>
    /\ \A i \in 1..Len(filtered) :
         /\ ShownLabel(i) # ""
         /\ ShownLabel(i) = SpanishWeekday(filtered[i].timestamp)
    /\ fig_box.path = "express" =>
         fig_box.category_orders =
           <<"Lunes", "Martes", "Miercoles", "Jueves", "Viernes", "Sabado", "Domingo">>
    /\ fig_box.path = "graph_objects" =>
         \A k, l \in 1..Len(fig_box.traces) :
           k < l => MondayFirst(fig_box.traces[k].name) < MondayFirst(fig_box.traces[l].name)

\* C15: after a file that hands a non-empty batch to insert_data_duckdb, the
\* store holds exactly one measurement row for every (station, monitor code,
\* timestamp) the extractor emitted, under the configured report type, also when
\* two rows of the file normalize to the same timestamp.
C15_BatchComplete ==
  [][StepPersists =>
       \A i \in 1..Len(StepBatch) :
         Cardinality({r \in measurements' : RowKey(r) = StepKey(StepBatch[i])}) = 1]_vars

====
